---- MODULE Spec2Model ----
(***************************************************************************)
(* Ukkonen suffix tree construction (src/ukkonen.py): the End cell, the    *)
(* Node heap, the construction driver run_algorithm, skip_count and the    *)
(* traversal get_suffix_tree, as one state machine of a Python process.    *)
(*                                                                         *)
(* Characters are their codes (ord); a string is a sequence of codes, and  *)
(* the Python index k of a string s is s[k+1] here.  Objects are numbered  *)
(* in allocation order: node id = index in nodes, End id = index in        *)
(* end_pointer.  None is 0 for a node reference and -1 for Node.j.         *)
(* Node.incoming, Node.connected_to and Ukkonen.previous_node are never    *)
(* read and only ever hold their initial value; they are left out.         *)
(***************************************************************************)
EXTENDS Integers, Sequences, FiniteSets

VARIABLES
    end_pointer,   \* End id -> End.end_pointer; id 1 is the default argument of __init__
    nodes,         \* node id -> Node fields
    insts,         \* Ukkonen instances, in construction order
    pc,            \* position of the running call ("idle": no call is running)
    text,          \* run_algorithm: text (after  text = text + '$')
    n,             \* run_algorithm: n
    i,             \* run_algorithm: i
    j,             \* run_algorithm: j
    a_node,        \* skip_count: a_node
    a_length,      \* skip_count: a_length
    char_rem,      \* run_algorithm: char_rem
    active_edge    \* run_algorithm: active_edge

vars == <<end_pointer, nodes, insts, pc, text, n, i, j, a_node, a_length,
          char_rem, active_edge>>

\* ------------------------------------------------------------------ bounds
MaxLen == 6        \* longest valid input of a first construction
MaxLenAny == 2     \* longest input drawn from the characters of AnyChars
MaxInst == 2       \* constructions in one process
MaxLenProc == 2    \* longest input when a process constructs several trees

\* -------------------------------------------------------- program constants
NumSlots == 91     \* [None] * 91
Shift == 36        \* ord(c) - 36
Dollar == 36       \* ord('$')
MinCode == 37      \* restricted ASCII range [37, 126]
MaxCode == 126
Sentinel == -1     \* End.end_pointer = -1
None == 0          \* a node reference that is None
NoJ == -1          \* Node.j = None
DefaultEnd == 1    \* the End() object made once, when __init__ is defined

\* ------------------------------------------------------------------ inputs
ValidChars == {97, 98}                      \* 'a', 'b'
AnyChars == {32, 36, 37, 97, 126, 127}      \* ' ', '$', '%', 'a', '~', DEL

SeqsUpTo(S, m) == UNION {[1..k -> S] : k \in 0..m}

Inputs == SeqsUpTo(ValidChars, MaxLen) \cup SeqsUpTo(AnyChars, MaxLenAny)
ProcInputs == SeqsUpTo(ValidChars, MaxLenProc)

Valid(txt) == \A p \in 1..Len(txt) : txt[p] >= MinCode /\ txt[p] <= MaxCode

\* ------------------------------------------------- Python indexing (list, str)
\* s[k] raises IndexError unless -len <= k < len; a negative k counts from the end.
InRange(k, len) == k >= -len /\ k < len
Norm(k, len) == IF k < 0 THEN k + len ELSE k
CharAt(s, k) == s[Norm(k, Len(s)) + 1]
\* s[a:b] for 0 <= a: the slice is clipped to the string.
Slice(s, a, b) ==
    LET hi == IF b < 0 THEN b + Len(s) ELSE IF b > Len(s) THEN Len(s) ELSE b
        lo == IF a > Len(s) THEN Len(s) ELSE a
    IN  IF hi <= lo THEN <<>> ELSE [p \in 1..(hi - lo) |-> s[lo + p]]

\* -------------------------------------------------------------------- Node
\* child_nodes holds only the slots that are not None.
NewNode(start, end, suffix_link, leaf_node) ==
    [start |-> start, end |-> end, suffix_link |-> suffix_link, j |-> NoJ,
     leaf_node |-> leaf_node, child_nodes |-> <<>>]

EndRef(e) == [obj |-> TRUE, v |-> e]      \* end is an End object
EndInt(k) == [obj |-> FALSE, v |-> k]     \* end is an integer

\* Node(start, self.end, suffix_link = self.root, leaf_node = True)
LeafNodeUnmarked(start, e, root) == NewNode(start, EndRef(e), root, FALSE)

LeafNodeShifted(start, e, root) == NewNode(start + 1, EndRef(e), root, TRUE)

LeafNode(start, e, root) == NewNode(start, EndRef(e), root, TRUE)

\* Node(active_edge.start, active_edge.start + self.active_length - 1,
\*      suffix_link = self.root)
SplitNodeLong(start, al, root) == NewNode(start, EndInt(start + al), root, FALSE)

SplitNode(start, al, root) == NewNode(start, EndInt(start + al - 1), root, FALSE)

GetItem(h, nd, idx) ==
    LET c == Norm(idx, NumSlots)
    IN  IF c \in DOMAIN h[nd].child_nodes THEN h[nd].child_nodes[c] ELSE None

Put(f, c, val) == [x \in (DOMAIN f) \cup {c} |-> IF x = c THEN val ELSE f[x]]

SetItem(h, nd, idx, val) ==
    [h EXCEPT ![nd].child_nodes = Put(@, Norm(idx, NumSlots), val)]

get_end(h, ep, nd) == IF h[nd].end.obj THEN ep[h[nd].end.v] ELSE h[nd].end.v

get_lengthInclusive(h, ep, nd) == get_end(h, ep, nd) - h[nd].start + 1

get_length(h, ep, nd) == get_end(h, ep, nd) - h[nd].start

is_leaf(h, nd) == h[nd].leaf_node

\* --------------------------------------------------------------- instances
cur == Len(insts)          \* the instance whose constructor is running
self == insts[cur]

Raise == /\ pc' = "idle"
         /\ insts' = [insts EXCEPT ![cur].status = "raised"]

Init ==
    /\ end_pointer = <<Sentinel>>
    /\ nodes = <<>>
    /\ insts = <<>>
    /\ pc = "idle"
    /\ text = <<>>
    /\ n = 0
    /\ i = 0
    /\ j = 0
    /\ a_node = None
    /\ a_length = 0
    /\ char_rem = 0
    /\ active_edge = None

\* Ukkonen.__init__ up to the first loop test of run_algorithm.  dflt: the
\* caller passes no End, so end is the default argument object; otherwise
\* the caller passes a new End().  j0 is the value line 147 gives j.
Build(txt, dflt, j0) ==
    LET e == IF dflt THEN DefaultEnd ELSE Len(end_pointer) + 1
        root == Len(nodes) + 1
    IN  /\ pc = "idle"
        /\ end_pointer' = IF dflt THEN end_pointer ELSE Append(end_pointer, Sentinel)
        /\ nodes' = Append(nodes, NewNode(0, EndRef(e), root, FALSE))
        /\ insts' = Append(insts, [text |-> txt, root |-> root, end |-> e,
                                   active_node |-> root, active_length |-> 0,
                                   status |-> "running", called |-> FALSE,
                                   returned |-> <<>>])
        /\ text' = Append(txt, Dollar)
        /\ i' = 0
        /\ j' = j0
        /\ n' = Len(txt) + 1
        /\ pc' = "phase"
        /\ UNCHANGED <<a_node, a_length, char_rem, active_edge>>

ConstructStaleJ(txt, dflt) == Build(txt, dflt, j)

Construct(txt, dflt) == Build(txt, dflt, 0)

\* ----------------------------------------------------------- run_algorithm
\* while i <= n
MorePhasesStrict(ii, nn) == ii < nn

MorePhases(ii, nn) == ii <= nn

\* while i <= n:  self.end.extend(); self.previous_node = None
PhaseStart ==
    /\ pc = "phase"
    /\ MorePhases(i, n)
    /\ end_pointer' = [end_pointer EXCEPT ![self.end] = @ + 1]
    /\ pc' = "ext"
    /\ UNCHANGED <<nodes, insts, text, n, i, j, a_node, a_length, char_rem, active_edge>>

\* while i <= n fails: run_algorithm and __init__ return.
Finish ==
    /\ pc = "phase"
    /\ ~MorePhases(i, n)
    /\ insts' = [insts EXCEPT ![cur].status = "done"]
    /\ pc' = "idle"
    /\ UNCHANGED <<end_pointer, nodes, text, n, i, j, a_node, a_length, char_rem,
                   active_edge>>

\* if self.active_node == self.root: self.active_length = i - j
ActiveLengthKept(ins, ii, jj) == ins.active_length

ActiveLength(ins, ii, jj) ==
    IF ins.active_node = ins.root THEN ii - jj ELSE ins.active_length

\* while j < i:  the active length is recomputed at the root, then
\* skip_count(text, i, self.active_node, self.active_length) is called.
ExtStart ==
    /\ pc = "ext"
    /\ j < i
    /\ LET len == ActiveLength(self, i, j)
       IN  /\ insts' = [insts EXCEPT ![cur].active_length = len]
           /\ a_node' = self.active_node
           /\ a_length' = len
    /\ pc' = "skip"
    /\ UNCHANGED <<end_pointer, nodes, text, n, i, j, char_rem, active_edge>>

\* while j < i fails: the extension loop of the phase is over.
LoopExit ==
    /\ pc = "ext"
    /\ ~(j < i)
    /\ pc' = "incr"
    /\ UNCHANGED <<end_pointer, nodes, insts, text, n, i, j, a_node, a_length,
                   char_rem, active_edge>>

\* i += 1; self.active_length += 1
PhaseEndKeepLength ==
    /\ pc = "incr"
    /\ i' = i + 1
    /\ pc' = "phase"
    /\ UNCHANGED <<end_pointer, nodes, insts, text, n, j, a_node, a_length, char_rem,
                   active_edge>>

PhaseEnd ==
    /\ pc = "incr"
    /\ i' = i + 1
    /\ insts' = [insts EXCEPT ![cur].active_length = @ + 1]
    /\ pc' = "phase"
    /\ UNCHANGED <<end_pointer, nodes, text, n, j, a_node, a_length, char_rem,
                   active_edge>>

\* -------------------------------------------------------------- skip_count
\* edge.get_length() > a_length: the active point lies on this edge.
StopsOnEdge(h, ep, edge, len) == get_length(h, ep, edge) > len

\* One iteration of  while True.  A return leaves a_node (the value
\* returned) and a_length as they are.
SkipStepEager ==
    /\ pc = "skip"
    /\ LET upd == [insts EXCEPT ![cur].active_node = a_node,
                                ![cur].active_length = a_length]
           pos == i - a_length
           lastj_index == CharAt(text, pos) - Shift
           edge == GetItem(nodes, a_node, lastj_index)
       IN  IF a_length = 0 \/ is_leaf(nodes, a_node)
           THEN /\ pc' = "select"
                /\ insts' = upd
                /\ UNCHANGED <<a_node, a_length>>
           ELSE IF ~InRange(pos, Len(text)) \/ ~InRange(lastj_index, NumSlots)
           THEN /\ pc' = "idle"
                /\ insts' = [upd EXCEPT ![cur].status = "raised"]
                /\ UNCHANGED <<a_node, a_length>>
           ELSE /\ insts' = upd
                /\ IF edge = None \/ StopsOnEdge(nodes, end_pointer, edge, a_length)
                   THEN /\ pc' = "select"
                        /\ UNCHANGED <<a_node, a_length>>
                   ELSE /\ pc' = "skip"
                        /\ a_node' = edge
                        /\ a_length' = a_length - get_length(nodes, end_pointer, edge)
    /\ UNCHANGED <<end_pointer, nodes, text, n, i, j, char_rem, active_edge>>

SkipStep ==
    /\ pc = "skip"
    /\ IF a_length = 0 \/ is_leaf(nodes, a_node)
       THEN /\ pc' = "select"
            /\ UNCHANGED <<insts, a_node, a_length>>
       ELSE LET upd == [insts EXCEPT ![cur].active_node = a_node,
                                     ![cur].active_length = a_length]
                pos == i - a_length
                lastj_index == CharAt(text, pos) - Shift
                edge == GetItem(nodes, a_node, lastj_index)
            IN  IF ~InRange(pos, Len(text)) \/ ~InRange(lastj_index, NumSlots)
                THEN /\ pc' = "idle"
                     /\ insts' = [upd EXCEPT ![cur].status = "raised"]
                     /\ UNCHANGED <<a_node, a_length>>
                ELSE /\ insts' = upd
                     /\ IF edge = None \/ StopsOnEdge(nodes, end_pointer, edge, a_length)
                        THEN /\ pc' = "select"
                             /\ UNCHANGED <<a_node, a_length>>
                        ELSE /\ pc' = "skip"
                             /\ a_node' = edge
                             /\ a_length' = a_length - get_length(nodes, end_pointer, edge)
    /\ UNCHANGED <<end_pointer, nodes, text, n, i, j, char_rem, active_edge>>

\* ------------------------------------------- run_algorithm, one extension
\* char_rem and active_edge are read, and the if / elif / else is decided.
SelectRule ==
    /\ pc = "select"
    /\ LET pos == i - self.active_length
           cr == CharAt(text, pos) - Shift
           ae == GetItem(nodes, self.active_node, cr)
           cmp == nodes[ae].start + self.active_length - 1
       IN  IF ~InRange(pos, Len(text)) \/ ~InRange(cr, NumSlots)
           THEN Raise /\ UNCHANGED <<char_rem, active_edge>>
           ELSE /\ char_rem' = cr
                /\ active_edge' = ae
                /\ IF ae = None
                   THEN pc' = "rule2a" /\ UNCHANGED insts
                   ELSE IF ~InRange(i - 1, Len(text)) \/ ~InRange(cmp, Len(text))
                   THEN Raise
                   ELSE /\ pc' = IF CharAt(text, i - 1) # CharAt(text, cmp)
                                 THEN "rule2b" ELSE "rule3"
                        /\ UNCHANGED insts
    /\ UNCHANGED <<end_pointer, nodes, text, n, i, j, a_node, a_length>>

\* j += 1; self.active_node = self.active_node.suffix_link   (in the heap h)
NextExtensionStay(h, ins) ==
    /\ j' = j + 1
    /\ insts' = ins
    /\ pc' = "ext"

NextExtension(h, ins) ==
    /\ j' = j + 1
    /\ insts' = [ins EXCEPT ![cur].active_node = h[ins[cur].active_node].suffix_link]
    /\ pc' = "ext"

\* Rule 2a: no edge starts with the character; a new leaf under the active node.
Rule2a ==
    /\ pc = "rule2a"
    /\ LET an == self.active_node
           leaf == Len(nodes) + 1
           h1 == Append(nodes, LeafNode(i - self.active_length, self.end, self.root))
           h2 == SetItem(h1, an, char_rem, leaf)
           h3 == [h2 EXCEPT ![GetItem(h2, an, char_rem)].j = j]
       IN  /\ nodes' = h3
           /\ NextExtension(h3, insts)
    /\ UNCHANGED <<end_pointer, text, n, i, a_node, a_length, char_rem, active_edge>>

\* Rule 2b: the edge is split after active_length - 1 characters.
Rule2b ==
    /\ pc = "rule2b"
    /\ LET an == self.active_node
           al == self.active_length
           ae == active_edge
           existing_char_node == Len(nodes) + 1
           h1 == Append(nodes, SplitNode(nodes[ae].start, al, self.root))
           h2 == SetItem(h1, an, char_rem, existing_char_node)
           cpos == nodes[ae].start - 1 + al
           continue_index == CharAt(text, cpos) - Shift
           h3 == [h2 EXCEPT ![ae].start = @ + al - 1]
           h4 == SetItem(h3, existing_char_node, continue_index, ae)
           new_node_index == CharAt(text, i - 1) - Shift
           h5 == Append(h4, LeafNode(i - 1, self.end, self.root))
           h6 == SetItem(h5, existing_char_node, new_node_index, Len(h4) + 1)
           h7 == [h6 EXCEPT ![GetItem(h6, existing_char_node, new_node_index)].j = j]
       IN  IF ~InRange(continue_index, NumSlots)
           THEN /\ nodes' = h3
                /\ Raise
                /\ UNCHANGED j
           ELSE IF ~InRange(new_node_index, NumSlots)
           THEN /\ nodes' = h5
                /\ Raise
                /\ UNCHANGED j
           ELSE /\ nodes' = h7
                /\ NextExtension(h7, insts)
    /\ UNCHANGED <<end_pointer, text, n, i, a_node, a_length, char_rem, active_edge>>

\* Rule 3 (showstopper): break.
Rule3Continue ==
    /\ pc = "rule3"
    /\ pc' = "ext"
    /\ UNCHANGED <<end_pointer, nodes, insts, text, n, i, j, a_node, a_length,
                   char_rem, active_edge>>

Rule3 ==
    /\ pc = "rule3"
    /\ pc' = "incr"
    /\ UNCHANGED <<end_pointer, nodes, insts, text, n, i, j, a_node, a_length,
                   char_rem, active_edge>>

\* --------------------------------------------------------- get_suffix_tree
\* suffix_tree.append(node.j + 1)
EmitZeroBased(suffix_tree, jj) == Append(suffix_tree, jj)

Emit(suffix_tree, jj) == Append(suffix_tree, jj + 1)

RECURSIVE get_suffix_tree_aux(_, _, _)
RECURSIVE VisitChildren(_, _, _, _)

\* for child in node.child_nodes, from slot c on: the slots that are None are
\* passed over, so the loop goes from one occupied slot to the next.
VisitChildren(h, node, c, suffix_tree) ==
    LET rest == {x \in DOMAIN h[node].child_nodes : x >= c /\ x < NumSlots}
        m == CHOOSE x \in rest : \A y \in rest : x <= y
    IN  IF rest = {} THEN suffix_tree
        ELSE VisitChildren(h, node, m + 1,
                           get_suffix_tree_aux(h, h[node].child_nodes[m], suffix_tree))

get_suffix_tree_aux(h, node, suffix_tree) ==
    IF is_leaf(h, node) THEN Emit(suffix_tree, h[node].j)
    ELSE VisitChildren(h, node, 0, suffix_tree)

get_suffix_tree(h, k) == get_suffix_tree_aux(h, insts[k].root, <<>>)

\* A call of get_suffix_tree() on the constructed instance k.
GetSuffixTreeAccum(k) ==
    /\ pc = "idle"
    /\ insts[k].status = "done"
    /\ insts' = [insts EXCEPT ![k].called = TRUE,
                              ![k].returned = get_suffix_tree_aux(nodes, insts[k].root, @)]
    /\ UNCHANGED <<end_pointer, nodes, pc, text, n, i, j, a_node, a_length,
                   char_rem, active_edge>>

GetSuffixTree(k) ==
    /\ pc = "idle"
    /\ insts[k].status = "done"
    /\ insts' = [insts EXCEPT ![k].called = TRUE,
                              ![k].returned = get_suffix_tree(nodes, k)]
    /\ UNCHANGED <<end_pointer, nodes, pc, text, n, i, j, a_node, a_length,
                   char_rem, active_edge>>

\* ---------------------------------------------------------- specifications
\* The first construction of a process.
Start == /\ Len(insts) = 0
         /\ \E txt \in Inputs, dflt \in BOOLEAN : Construct(txt, dflt)

\* Any construction of a process that constructs up to MaxInst trees.
StartProc == /\ Len(insts) < MaxInst
             /\ \E txt \in ProcInputs, dflt \in BOOLEAN : Construct(txt, dflt)

Query == \E k \in 1..Len(insts) : GetSuffixTree(k)

Run == \/ PhaseStart
       \/ Finish
       \/ ExtStart
       \/ LoopExit
       \/ PhaseEnd
       \/ SkipStep
       \/ SelectRule
       \/ Rule2a
       \/ Rule2b
       \/ Rule3
       \/ Query

Next == Start \/ Run

Spec == Init /\ [][Next]_vars

NextProc == StartProc \/ Run

\* A constructor call that has started runs on: the interpreter executes the
\* next statement of the running call.
Step == \/ PhaseStart
        \/ Finish
        \/ ExtStart
        \/ LoopExit
        \/ PhaseEnd
        \/ SkipStep
        \/ SelectRule
        \/ Rule2a
        \/ Rule2b
        \/ Rule3

SpecLive == Init /\ [][Next]_vars /\ WF_vars(Step)

SpecProc == Init /\ [][NextProc]_vars

\* ------------------------------------------------- the tree of an instance
TextOf(k) == Append(insts[k].text, Dollar)

Children(h, nd) == {h[nd].child_nodes[c] : c \in DOMAIN h[nd].child_nodes}

RECURSIVE Below(_, _)
Below(h, nd) == {nd} \cup UNION {Below(h, c) : c \in Children(h, nd)}

TreeOf(k) == Below(nodes, insts[k].root)

LeavesOf(k) == {nd \in TreeOf(k) : is_leaf(nodes, nd)}

Parent(h, nd) == CHOOSE p \in 1..Len(h) : nd \in Children(h, p)

\* The edge labels T[node.start : node.get_end()] from below the root down to nd.
RECURSIVE PathLabel(_, _, _, _, _)
PathLabel(h, ep, T, root, nd) ==
    IF nd = root THEN <<>>
    ELSE PathLabel(h, ep, T, root, Parent(h, nd))
             \o Slice(T, h[nd].start, get_end(h, ep, nd))

\* ------------------------------------------------- the naive suffix order
Suffix(T, k) == SubSeq(T, k + 1, Len(T))

LexLess(s, t) ==
    \E p \in 1..(Len(s) + 1) :
        /\ \A q \in 1..(p - 1) : q <= Len(t) /\ s[q] = t[q]
        /\ \/ p = Len(s) + 1 /\ p <= Len(t)
           \/ p <= Len(s) /\ p <= Len(t) /\ s[p] < t[p]

Rank(T, k) == Cardinality({m \in 0..(Len(T) - 1) : LexLess(Suffix(T, m), Suffix(T, k))})

NaiveOrder(T) ==
    [r \in 1..Len(T) |-> 1 + CHOOSE k \in 0..(Len(T) - 1) : Rank(T, k) = r - 1]

Instances == 1..Len(insts)

\* ------------------------------------------------------------------ claims
\* C1: on a valid input, get_suffix_tree() returns the 1-indexed start offsets
\* of the suffixes of text + '$' in lexicographic order, '$' lowest.
SuffixOrderIsSorted ==
    \A k \in Instances :
        (insts[k].called /\ Valid(insts[k].text))
            => insts[k].returned = NaiveOrder(TextOf(k))

SuffixOrderIsSortedWitness ==
    \E k \in Instances :
        /\ insts[k].called
        /\ insts[k].text = <<97, 97, 98, 97, 97>>
        /\ insts[k].returned = <<6, 5, 4, 1, 2, 3>>

\* C2: on a valid input, get_suffix_tree() returns len(text) + 1 numbers, each
\* of 1..len(text)+1 exactly once.
SuffixOrderIsPermutation ==
    \A k \in Instances :
        (insts[k].called /\ Valid(insts[k].text))
            => LET r == insts[k].returned
               IN  /\ Len(r) = Len(insts[k].text) + 1
                   /\ {r[p] : p \in 1..Len(r)} = 1..(Len(insts[k].text) + 1)

SuffixOrderIsPermutationWitness ==
    \E k \in Instances :
        /\ insts[k].called
        /\ insts[k].text = <<97, 98, 97, 98, 97>>
        /\ Len(insts[k].returned) = 6

\* C3: after construction on a valid input, the edge labels on the path from
\* the root to the leaf with suffix index k spell T[k:], T = text + '$'.
LeafPathSpellsSuffix ==
    \A k \in Instances :
        (insts[k].status = "done" /\ Valid(insts[k].text))
            => \A nd \in LeavesOf(k) :
                   PathLabel(nodes, end_pointer, TextOf(k), insts[k].root, nd)
                       = Suffix(TextOf(k), nodes[nd].j)

LeafPathSpellsSuffixWitness ==
    \E k \in Instances :
        /\ insts[k].status = "done"
        /\ Valid(insts[k].text)
        /\ \E nd \in LeavesOf(k) :
               /\ Parent(nodes, nd) # insts[k].root
               /\ Parent(nodes, Parent(nodes, nd)) # insts[k].root
               /\ nodes[nd].j > 0

\* C4: after construction on a valid input the tree has len(text) + 1 leaves,
\* one for each suffix of text + '$', and the phase that adds '$' never ends
\* by rule 3.
OneLeafPerSuffix ==
    /\ \A k \in Instances :
           (insts[k].status = "done" /\ Valid(insts[k].text))
               => /\ Cardinality(LeavesOf(k)) = Len(insts[k].text) + 1
                  /\ {nodes[nd].j : nd \in LeavesOf(k)} = 0..Len(insts[k].text)
    /\ (pc = "rule3" /\ Valid(self.text)) => i < n

OneLeafPerSuffixWitness ==
    \E k \in Instances :
        /\ insts[k].status = "done"
        /\ insts[k].text = <<97, 98, 97, 97, 98>>
        /\ Cardinality(LeavesOf(k)) = 6

\* C5: an input with a character outside 37..126 is rejected before
\* construction begins: the constructor does not complete, no node is put
\* under the root and the End is not advanced.
InvalidInputRejected ==
    \A k \in Instances :
        ~Valid(insts[k].text)
            => /\ insts[k].status # "done"
               /\ Children(nodes, insts[k].root) = {}
               /\ end_pointer[insts[k].end] = Sentinel

\* C6: the empty string is constructed without error; the tree has one leaf,
\* with suffix index 0, under the root, and get_suffix_tree() returns [1].
EmptyInputOneLeaf ==
    \A k \in Instances :
        insts[k].text = <<>>
            => /\ insts[k].status # "raised"
               /\ insts[k].status = "done"
                    => /\ \E nd \in Children(nodes, insts[k].root) :
                              /\ LeavesOf(k) = {nd}
                              /\ nodes[nd].j = 0
                       /\ Cardinality(TreeOf(k)) = 2
               /\ insts[k].called => insts[k].returned = <<1>>

EmptyInputOneLeafWitness ==
    \E k \in Instances : insts[k].text = <<>> /\ insts[k].called

\* C7: a call of get_suffix_tree() changes no node, no End and no field of
\* any instance, and returns what the previous call on the instance returned.
TraversalReadOnly ==
    [][(pc = "idle" /\ pc' = "idle")
          => /\ nodes' = nodes
             /\ end_pointer' = end_pointer
             /\ Len(insts') = Len(insts)
             /\ \A k \in Instances :
                    /\ insts'[k].root = insts[k].root
                    /\ insts'[k].end = insts[k].end
                    /\ insts'[k].active_node = insts[k].active_node
                    /\ insts'[k].active_length = insts[k].active_length
                    /\ insts'[k].status = insts[k].status
                    /\ insts[k].called => /\ insts'[k].called
                                          /\ insts'[k].returned = insts[k].returned]_vars

\* A call was answered, and a later construction has advanced the End the
\* instance holds.
TraversalReadOnlyWitness ==
    \E k \in Instances :
        /\ insts[k].called
        /\ Len(insts[k].returned) = 3
        /\ k < Len(insts)
        /\ insts[Len(insts)].status = "done"
        /\ insts[Len(insts)].end = insts[k].end

\* C8: two constructions on the same input return equal lists, whatever was
\* constructed before them.
SameInputSameOrder ==
    \A k1, k2 \in Instances :
        (insts[k1].called /\ insts[k2].called /\ insts[k1].text = insts[k2].text)
            => insts[k1].returned = insts[k2].returned

SameInputSameOrderWitness ==
    \E k1, k2 \in Instances :
        /\ k1 < k2
        /\ insts[k1].called
        /\ insts[k2].called
        /\ insts[k1].text = <<97, 97>>
        /\ insts[k2].text = <<97, 97>>
        /\ insts[k1].end = DefaultEnd
        /\ insts[k2].end = DefaultEnd

\* C9: constructing another instance never changes get_end() of a leaf of a
\* tree constructed before.
EndMarkerScoped ==
    [][\A k \in Instances :
           insts[k].status = "done"
               => \A nd \in LeavesOf(k) :
                      get_end(nodes', end_pointer', nd) = get_end(nodes, end_pointer, nd)]_vars

\* C10: in every construction the End holds -1 before the first phase, the
\* phase index i throughout the extension loop of phase i, and len(text) + 1
\* when the construction has finished.
EndMarkerFollowsPhase ==
    /\ (pc = "phase" /\ i = 0) => end_pointer[self.end] = Sentinel
    /\ pc \in {"ext", "skip", "select", "rule2a", "rule2b", "rule3", "incr"}
           => end_pointer[self.end] = i
    /\ (pc = "idle" /\ Len(insts) > 0 /\ self.status = "done")
           => end_pointer[self.end] = Len(self.text) + 1

\* C11: in every state a node's end is the End object exactly when the node
\* is a leaf, and a leaf's End is the End of its tree.
EndObjectIffLeaf ==
    \A k \in Instances :
        \A nd \in TreeOf(k) :
            /\ nodes[nd].end.obj <=> is_leaf(nodes, nd)
            /\ is_leaf(nodes, nd) => nodes[nd].end.v = insts[k].end

\* ------------------------------------------------ strings spelled by a tree
IsPrefix(s, t) == Len(s) <= Len(t) /\ \A p \in 1..Len(s) : s[p] = t[p]

\* s is read from node nd downwards, ending on an edge or at a node.
RECURSIVE Spelled(_, _, _, _, _)
Spelled(h, ep, T, nd, s) ==
    IF s = <<>> THEN TRUE
    ELSE LET c == GetItem(h, nd, s[1] - Shift)
             label == Slice(T, h[c].start, get_end(h, ep, c))
         IN  /\ c # None
             /\ IF Len(s) <= Len(label) THEN IsPrefix(s, label)
                ELSE /\ label # <<>>
                     /\ IsPrefix(label, s)
                     /\ Spelled(h, ep, T, c, SubSeq(s, Len(label) + 1, Len(s)))

ExtensionStepEffect ==
    (pc \in {"rule2a", "rule2b", "rule3"} /\ Valid(self.text))
        => IF pc = "rule3"
           THEN nodes' = nodes /\ j' = j
           ELSE LET new == {nd \in (Len(nodes) + 1)..Len(nodes') : is_leaf(nodes', nd)}
                IN  /\ Cardinality(new) = 1
                    /\ \A nd \in new : nodes'[nd].j = j /\ nd \in Below(nodes', self.root)
                    /\ \A nd \in 1..Len(nodes) : is_leaf(nodes', nd) = is_leaf(nodes, nd)
                    /\ j' = j + 1
                    /\ insts'[cur].active_node = self.root

LeafIndicesUpToJ ==
    (pc # "idle" /\ Valid(self.text))
        => /\ j <= i
           /\ {nodes[nd].j : nd \in LeavesOf(cur)} = 0..(j - 1)
           /\ Cardinality(LeavesOf(cur)) = j

OneLeafPerExtension == [][ExtensionStepEffect]_vars /\ []LeafIndicesUpToJ

\* A rule 2b step was taken from a node other than the root.
OneLeafPerExtensionWitness ==
    /\ pc = "ext"
    /\ Valid(self.text)
    /\ j >= 3
    /\ \E nd \in LeavesOf(cur) :
           /\ nodes[nd].j = j - 1
           /\ Parent(nodes, nd) # self.root
           /\ Parent(nodes, Parent(nodes, nd)) # self.root

\* C14: when skip_count returns, self.active_node is the node it returns and
\* self.active_length is the remaining length at that node.
SkipCountSyncsActivePoint ==
    (pc = "select" /\ Valid(self.text))
        => /\ self.active_node = a_node
           /\ self.active_length = a_length

\* C14 as amended: that holds when the remaining length is not 0; when the
\* last descent used up the whole length, self.active_node is the parent of
\* the returned node and self.active_length the length of the edge into it.
SkipCountActivePoint ==
    (pc = "select" /\ Valid(self.text))
        => IF a_length # 0
           THEN /\ self.active_node = a_node
                /\ self.active_length = a_length
           ELSE /\ a_node # self.root
                /\ self.active_node = Parent(nodes, a_node)
                /\ self.active_length = get_end(nodes, end_pointer, a_node)
                                            - nodes[a_node].start

\* A return after two descents, the second one using up the length.
SkipCountActivePointWitness ==
    /\ pc = "select"
    /\ Valid(self.text)
    /\ a_length = 0
    /\ self.active_node # self.root
    /\ self.active_node = Parent(nodes, a_node)

\* C15: a rule 2b step on the edge node E under the active node, with active
\* length L, puts one new internal node with label T[E.start : E.start+L-1]
\* in E's slot, re-parents E under it with E.start advanced by L-1 and
\* attaches one new leaf starting at i-1; both labels have length >= 1, E and
\* the leaf are in different slots, and the path string of E and of every
\* node below E is unchanged.
EdgeSplitEffect ==
    (pc = "rule2b" /\ Valid(self.text))
        => LET E == active_edge
               L == self.active_length
               an == self.active_node
               slot == Norm(char_rem, NumSlots)
               X == Len(nodes) + 1
               leaf == Len(nodes) + 2
               kids == nodes'[X].child_nodes
           IN  /\ nodes[an].child_nodes[slot] = E
               /\ Len(nodes') = Len(nodes) + 2
               /\ nodes'[an].child_nodes = [nodes[an].child_nodes EXCEPT ![slot] = X]
               /\ ~is_leaf(nodes', X)
               /\ nodes'[X].start = nodes[E].start
               /\ nodes'[X].end = EndInt(nodes[E].start + L - 1)
               /\ nodes'[E].start = nodes[E].start + L - 1
               /\ nodes'[E] = [nodes[E] EXCEPT !.start = @ + L - 1]
               /\ is_leaf(nodes', leaf)
               /\ nodes'[leaf].start = i - 1
               /\ Cardinality(DOMAIN kids) = 2
               /\ {kids[c] : c \in DOMAIN kids} = {E, leaf}
               /\ get_length(nodes', end_pointer', X) >= 1
               /\ get_length(nodes', end_pointer', E) >= 1
               /\ Below(nodes', E) = Below(nodes, E)
               /\ \A nd \in Below(nodes, E) :
                      PathLabel(nodes', end_pointer', text, self.root, nd)
                          = PathLabel(nodes, end_pointer, text, self.root, nd)

EdgeSplitFrame == [][EdgeSplitEffect]_vars

\* After a split of an edge into an internal node: the re-parented node is
\* older than its parent and has children of its own.
EdgeSplitFrameWitness ==
    /\ pc = "ext"
    /\ Valid(self.text)
    /\ \E nd \in TreeOf(cur) :
           /\ nd # self.root
           /\ ~is_leaf(nodes, nd)
           /\ Parent(nodes, nd) = Len(nodes) - 1
           /\ nodes[Len(nodes)].j = j - 1

\* C16: on a valid input the construction terminates: every descent of
\* skip_count lowers the remaining length and skip_count returns, every
\* extension loop ends, and the phase loop ends after phase i = len(text)+1.
ConstructionTerminates ==
    /\ [][(pc = "skip" /\ pc' = "skip" /\ Valid(self.text))
             => (a_length' < a_length /\ a_length' >= 0)]_vars
    /\ [][(pc = "phase" /\ pc' = "idle" /\ Valid(self.text))
             => i = Len(self.text) + 2]_vars
    /\ (pc = "skip" /\ Valid(self.text)) ~> (pc = "select")
    /\ (pc = "ext" /\ Valid(self.text)) ~> (pc = "incr")
    /\ (pc # "idle" /\ Valid(self.text))
           ~> (pc = "idle" /\ Len(insts) > 0 /\ self.status = "done")

\* skip_count after two descents, with length left.
ConstructionTerminatesWitness ==
    /\ pc = "skip"
    /\ Valid(self.text)
    /\ a_length > 0
    /\ a_node # self.root
    /\ a_node # self.active_node
    /\ self.active_node # self.root

\* C17: whenever an extension inspects the active edge (right after
\* skip_count) on a valid input, active_length >= 1, the active node is not a
\* leaf and the path from the root to it spells T[j : i - active_length].
ActivePointConsistent ==
    (pc = "select" /\ Valid(self.text))
        => LET path == PathLabel(nodes, end_pointer, text, self.root, self.active_node)
           IN  /\ self.active_length >= 1
               /\ ~is_leaf(nodes, self.active_node)
               /\ self.active_node \in TreeOf(cur)
               /\ path = Slice(text, j, i - self.active_length)
               /\ Len(path) + self.active_length = i - j

\* 'aabaa', phase 6: phase 5 ended by rule 3 below the root, so skip_count
\* is entered with that node and the length 2 that PhaseEnd left.
ActivePointConsistentWitness ==
    /\ pc = "select"
    /\ self.text = <<97, 97, 98, 97, 97>>
    /\ i = 6
    /\ j = 3
    /\ self.active_node # self.root
    /\ a_node = self.active_node
    /\ self.active_length = 2

\* C18: in every reachable state on a valid input, a child in slot c of a
\* node has a label whose first character has code c + 36, also after a
\* split has advanced the start of the re-parented node.
ChildSlotKeyedByFirstChar ==
    \A k \in Instances :
        Valid(insts[k].text)
            => \A nd \in TreeOf(k) :
                   \A c \in DOMAIN nodes[nd].child_nodes :
                       LET child == nodes[nd].child_nodes[c]
                       IN  /\ c \in 0..(NumSlots - 1)
                           /\ InRange(nodes[child].start, Len(TextOf(k)))
                           /\ CharAt(TextOf(k), nodes[child].start) - Shift = c

\* A re-parented node whose start was advanced by a split, next to the leaf
\* for '$' under the same new node.
ChildSlotKeyedByFirstCharWitness ==
    \E k \in Instances :
        /\ Valid(insts[k].text)
        /\ \E nd \in TreeOf(k) :
               /\ nd # insts[k].root
               /\ 0 \in DOMAIN nodes[nd].child_nodes
               /\ \E c \in DOMAIN nodes[nd].child_nodes :
                      /\ nodes[nd].child_nodes[c] < nd
                      /\ nodes[nodes[nd].child_nodes[c]].start > nodes[nd].start
                      /\ ~is_leaf(nodes, nodes[nd].child_nodes[c])

====
